---- MODULE Spec2Model ----
(***************************************************************************)
(* A model of pgo-analysis (src/main.go): readStats scans standard input   *)
(* line by line into a list of CallStat records and a map from normalized  *)
(* position to inlined symbols; run aggregates the records into five sums, *)
(* prints the breakdowns, sorts the records and walks them from the end to *)
(* print the hottest indirect calls.                                       *)
(*                                                                         *)
(* Strings that the program compares with < or inspects byte by byte (Pkg, *)
(* Pos) are sequences of byte values; strings it only tests for equality   *)
(* (Caller, Hottest, Devirtualized, inlined symbols) are TLA+ strings.     *)
(* An input line is modelled by what the program's two parsers return for  *)
(* it and by its length in bytes.                                          *)
(***************************************************************************)
EXTENDS Integers, Sequences, FiniteSets

VARIABLES
    input,                \* the lines consumed from standard input so far
    fragment,             \* a failed read left an unterminated line buffered
    scanErr,              \* scanner.Err()
    stats,                \* []CallStat
    inlined,              \* map[string][]string, pos -> symbols
    pc,                   \* position in run()
    ret,                  \* run()'s result once it has returned
    k,                    \* records aggregated so far
    count, weight, hottestWeight, devirtualizedCount, devirtualizedWeight,
    i,                    \* index of the top-K walk (1-based)
    printed, topWeight, topHottestWeight,
    out                   \* the lines written to standard output

vars == <<input, fragment, scanErr, stats, inlined, pc, ret, k,
          count, weight, hottestWeight, devirtualizedCount, devirtualizedWeight,
          i, printed, topWeight, topHottestWeight, out>>

-----------------------------------------------------------------------------
(* Bounds and constants *)

\* Longest input, in lines.
MaxLines == 3

\* const topCount (100 in the source), scaled down so that inputs within
\* MaxLines hold more non-direct records than the listing prints.
topCount == 2

\* bufio.MaxScanTokenSize: the default Scanner's buffer limit.
MaxScanTokenSize == 65536

\* '/'
Slash == 47

\* '.'
Dot == 46

None == "nil"
ErrIO == "read error"
ErrTooLong == "bufio.Scanner: token too long"

-----------------------------------------------------------------------------
(* Strings as byte sequences *)

\* Go's < on strings: bytewise lexicographic order.
RECURSIVE StrLess(_, _)
StrLess(a, b) ==
    IF b = <<>> THEN FALSE
    ELSE IF a = <<>> THEN TRUE
    ELSE IF Head(a) # Head(b) THEN Head(a) < Head(b)
    ELSE StrLess(Tail(a), Tail(b))

\* The elements of a path between its separators (empty ones included).
RECURSIVE SplitPath(_, _)
SplitPath(path, cur) ==
    IF path = <<>> THEN <<cur>>
    ELSE IF Head(path) = Slash THEN <<cur>> \o SplitPath(Tail(path), <<>>)
    ELSE SplitPath(Tail(path), Append(cur, Head(path)))

\* filepath.Clean's walk over the elements: empty and "." elements are
\* dropped, ".." removes the element before it (at the root it is dropped,
\* at the start of a relative path it is kept).
RECURSIVE CleanElems(_, _, _)
CleanElems(elems, acc, rooted) ==
    IF elems = <<>> THEN acc
    ELSE LET e == Head(elems)
             rest == Tail(elems)
         IN IF e = <<>> \/ e = <<Dot>> THEN CleanElems(rest, acc, rooted)
            ELSE IF e = <<Dot, Dot>>
                 THEN IF acc # <<>> /\ acc[Len(acc)] # <<Dot, Dot>>
                      THEN CleanElems(rest, SubSeq(acc, 1, Len(acc) - 1), rooted)
                      ELSE IF rooted THEN CleanElems(rest, acc, rooted)
                      ELSE CleanElems(rest, Append(acc, e), rooted)
            ELSE CleanElems(rest, Append(acc, e), rooted)

RECURSIVE JoinElems(_)
JoinElems(elems) ==
    IF elems = <<>> THEN <<>>
    ELSE IF Len(elems) = 1 THEN Head(elems)
    ELSE Head(elems) \o <<Slash>> \o JoinElems(Tail(elems))

\* filepath.Clean on a Unix path.
Clean(path) ==
    IF path = <<>> THEN <<Dot>>
    ELSE LET rooted == Head(path) = Slash
             body == JoinElems(CleanElems(SplitPath(path, <<>>), <<>>, rooted))
         IN IF rooted THEN <<Slash>> \o body
            ELSE IF body = <<>> THEN <<Dot>> ELSE body

\* filepath.Join of two elements: empty elements are ignored, the rest are
\* joined by a separator and cleaned.
Join(a, b) ==
    IF a = <<>> /\ b = <<>> THEN <<>>
    ELSE IF a = <<>> THEN Clean(b)
    ELSE IF b = <<>> THEN Clean(a)
    ELSE Clean(a \o <<Slash>> \o b)

\* var cwd: the working directory at startup, here "/w".
cwd == <<Slash, 119>>

normalizePos(pos) ==
    IF Len(pos) >= 1 /\ pos[1] = Slash THEN pos ELSE Join(cwd, pos)

-----------------------------------------------------------------------------
(* Records and lines *)

CallStat(pkg, pos, caller, direct, iface, w, hot, hw, dev, dw) ==
    [Pkg |-> pkg, Pos |-> pos, Caller |-> caller, Direct |-> direct,
     Interface |-> iface, Weight |-> w, Hottest |-> hot, HottestWeight |-> hw,
     Devirtualized |-> dev, DevirtualizedWeight |-> dw]

\* var stat CallStat: the zero value.
ZeroStat == CallStat(<<>>, <<>>, "", FALSE, FALSE, 0, "", 0, "", 0)

\* A line whose text is a JSON object decoding to s.
RecordLine(s) == [m |-> <<>>, ok |-> TRUE, stat |-> s, len |-> 120]

\* A line "<pos>: inlining call to <sym>".
AnnotationLine(pos, sym) ==
    [m |-> <<pos, sym>>, ok |-> FALSE, stat |-> ZeroStat, len |-> 40]

\* A line that is neither, n bytes long.
NoiseLine(n) == [m |-> <<>>, ok |-> FALSE, stat |-> ZeroStat, len |-> n]

\* inlinedCallRe.FindStringSubmatch(line): the two submatches (the whole
\* match m[0] is left out), or nothing.
FindStringSubmatch(line) == line.m

\* json.Unmarshal(line, &stat): whether it succeeded, and the record.
Unmarshal(line) == [ok |-> line.ok, stat |-> line.stat]

\* inlined[pos] of a map: a missing key reads as the nil slice.
Lookup(map, pos) == IF pos \in DOMAIN map THEN map[pos] ELSE <<>>

EmptyMap == [p \in {} |-> <<>>]

\* A variant that assigns where the code appends.
AppendInlinedOverwrite(map, pos, sym) ==
    [p \in DOMAIN map \cup {pos} |-> IF p = pos THEN <<sym>> ELSE map[p]]

\* inlined[pos] = append(inlined[pos], sym)
AppendInlined(map, pos, sym) ==
    [p \in DOMAIN map \cup {pos} |->
        IF p = pos THEN Append(Lookup(map, pos), sym) ELSE map[p]]

-----------------------------------------------------------------------------
(* readStats *)

\* The reader fails: the scanner keeps the error, hands out the unterminated
\* line it had buffered, if any, and stops.
ReadFault ==
    /\ pc = "scan"
    /\ scanErr = None
    /\ \E f \in BOOLEAN :
          /\ f => Len(input) < MaxLines
          /\ fragment' = f
    /\ scanErr' = ErrIO
    /\ UNCHANGED <<input, stats, inlined, pc, ret, k, count, weight,
                   hottestWeight, devirtualizedCount, devirtualizedWeight,
                   i, printed, topWeight, topHottestWeight, out>>

\* One iteration of the scanner.Scan() loop on the next line of the stream,
\* one of lines. A line that does not fit the scanner's buffer ends the scan
\* with ErrTooLong (a buffered fragment always fits).
Scan(lines) ==
    /\ pc = "scan"
    /\ scanErr = None \/ fragment
    /\ Len(input) < MaxLines
    /\ \E line \in lines :
          LET m == FindStringSubmatch(line)
              u == Unmarshal(line)
          IN /\ fragment => line.len < MaxScanTokenSize
             /\ input' = Append(input, line)
             /\ IF line.len >= MaxScanTokenSize
                THEN /\ scanErr' = ErrTooLong
                     /\ UNCHANGED <<stats, inlined>>
                ELSE /\ inlined' = IF Len(m) = 2
                                   THEN AppendInlined(inlined, normalizePos(m[1]), m[2])
                                   ELSE inlined
                     /\ stats' = IF u.ok THEN Append(stats, u.stat) ELSE stats
                     /\ UNCHANGED scanErr
    /\ fragment' = FALSE
    /\ UNCHANGED <<pc, ret, k, count, weight, hottestWeight,
                   devirtualizedCount, devirtualizedWeight,
                   i, printed, topWeight, topHottestWeight, out>>

\* A variant that drops the error check.
AfterReadPcIgnoreErr(err) == "aggregate"

\* if err != nil { return err }
AfterReadPc(err) == IF err # None THEN "failed" ELSE "aggregate"

\* scanner.Scan() returned false, at the end of the stream or on an error:
\* readStats returns, and run with it when the scanner kept an error.
ScanEnd ==
    /\ pc = "scan"
    /\ ~fragment
    /\ pc' = AfterReadPc(scanErr)
    /\ IF pc' = "failed"
       THEN /\ ret' = scanErr
            /\ stats' = <<>>
            /\ inlined' = EmptyMap
       ELSE UNCHANGED <<ret, stats, inlined>>
    /\ UNCHANGED <<input, fragment, scanErr, k, count, weight,
                   hottestWeight, devirtualizedCount, devirtualizedWeight,
                   i, printed, topWeight, topHottestWeight, out>>

-----------------------------------------------------------------------------
(* run: aggregation *)

ZeroSum == [direct |-> 0, indirectFunc |-> 0, indirectMethod |-> 0]

\* func (s *sum) total()
total(s) == s.direct + s.indirectFunc + s.indirectMethod

\* pct(n, d): the quotient 100*n/d is a float64; kept as its operands.
pct(n, d) == <<n, d>>

\* A variant that tests Interface before Direct.
CategoryInterfaceFirst(s) ==
    IF s.Interface THEN "indirectMethod"
    ELSE IF s.Direct THEN "direct" ELSE "indirectFunc"

\* The branch of the aggregation loop a record takes.
Category(s) ==
    IF s.Direct THEN "direct"
    ELSE IF s.Interface THEN "indirectMethod" ELSE "indirectFunc"

Add(sum, cat, n) == [sum EXCEPT ![cat] = @ + n]

\* What the loop adds to hottestWeight for a record.
HottestIncrement(s) == IF s.Direct THEN s.Weight ELSE s.HottestWeight

\* A variant that also counts direct records.
CountsDevirtualizedAnyKind(s) == s.Devirtualized # ""

\* Whether the loop counts a record as devirtualized.
CountsDevirtualized(s) == ~s.Direct /\ s.Devirtualized # ""

\* One iteration of the loop over stats.
Aggregate ==
    /\ pc = "aggregate"
    /\ k < Len(stats)
    /\ LET s == stats[k + 1]
           cat == Category(s)
       IN /\ count' = Add(count, cat, 1)
          /\ weight' = Add(weight, cat, s.Weight)
          /\ hottestWeight' = Add(hottestWeight, cat, HottestIncrement(s))
          /\ IF CountsDevirtualized(s)
             THEN /\ devirtualizedCount' = Add(devirtualizedCount, cat, 1)
                  /\ devirtualizedWeight' =
                        Add(devirtualizedWeight, cat, s.DevirtualizedWeight)
             ELSE UNCHANGED <<devirtualizedCount, devirtualizedWeight>>
    /\ k' = k + 1
    /\ UNCHANGED <<input, fragment, scanErr, stats, inlined, pc, ret,
                   i, printed, topWeight, topHottestWeight, out>>

\* The breakdown lines, each as the arguments of its Printf.
Breakdown ==
    << [kind |-> "count", total |-> total(count), direct |-> count.direct,
        indirectFunc |-> count.indirectFunc,
        indirectMethod |-> count.indirectMethod,
        pcts |-> <<pct(count.direct, total(count)),
                   pct(count.indirectFunc, total(count)),
                   pct(count.indirectMethod, total(count))>>],
       [kind |-> "weight", total |-> total(weight), direct |-> weight.direct,
        indirectFunc |-> weight.indirectFunc,
        indirectMethod |-> weight.indirectMethod,
        pcts |-> <<pct(weight.direct, total(weight)),
                   pct(weight.indirectFunc, total(weight)),
                   pct(weight.indirectMethod, total(weight))>>],
       [kind |-> "hottest", total |-> total(hottestWeight),
        direct |-> hottestWeight.direct,
        indirectFunc |-> hottestWeight.indirectFunc,
        indirectMethod |-> hottestWeight.indirectMethod,
        pcts |-> <<pct(total(hottestWeight), total(weight)),
                   pct(hottestWeight.direct, weight.direct),
                   pct(hottestWeight.indirectFunc, weight.indirectFunc),
                   pct(hottestWeight.indirectMethod, weight.indirectMethod)>>],
       [kind |-> "devirtualized interface count",
        n |-> devirtualizedCount.indirectMethod,
        ofTotal |-> pct(devirtualizedCount.indirectMethod, total(count)),
        ofKind |-> pct(devirtualizedCount.indirectMethod, count.indirectMethod)],
       [kind |-> "devirtualized interface weight",
        n |-> devirtualizedWeight.indirectMethod,
        ofTotal |-> pct(devirtualizedWeight.indirectMethod, total(weight)),
        ofKind |-> pct(devirtualizedWeight.indirectMethod, weight.indirectMethod)],
       [kind |-> "devirtualized function count",
        n |-> devirtualizedCount.indirectFunc,
        ofTotal |-> pct(devirtualizedCount.indirectFunc, total(count)),
        ofKind |-> pct(devirtualizedCount.indirectFunc, count.indirectFunc)],
       [kind |-> "devirtualized function weight",
        n |-> devirtualizedWeight.indirectFunc,
        ofTotal |-> pct(devirtualizedWeight.indirectFunc, total(weight)),
        ofKind |-> pct(devirtualizedWeight.indirectFunc, weight.indirectFunc)],
       [kind |-> "top header", n |-> topCount] >>

\* The loop is over: print the breakdowns and the listing's header.
PrintBreakdown ==
    /\ pc = "aggregate"
    /\ k = Len(stats)
    /\ out' = out \o Breakdown
    /\ pc' = "sort"
    /\ UNCHANGED <<input, fragment, scanErr, stats, inlined, ret, k,
                   count, weight, hottestWeight, devirtualizedCount,
                   devirtualizedWeight, i, printed, topWeight,
                   topHottestWeight>>

-----------------------------------------------------------------------------
(* run: ranking *)

\* A variant that compares packages the other way round.
lessPkgDescending(a, b) ==
    IF a.HottestWeight # b.HottestWeight THEN a.HottestWeight < b.HottestWeight
    ELSE IF a.Pkg # b.Pkg THEN StrLess(b.Pkg, a.Pkg)
    ELSE StrLess(a.Pos, b.Pos)

\* The less function given to sort.Slice.
less(a, b) ==
    IF a.HottestWeight # b.HottestWeight THEN a.HottestWeight < b.HottestWeight
    ELSE IF a.Pkg # b.Pkg THEN StrLess(a.Pkg, b.Pkg)
    ELSE StrLess(a.Pos, b.Pos)

\* The orders sort.Slice may leave s in: the permutations of s in which no
\* element is less than one before it (the sort is not stable).
SortResults(s) ==
    LET n == Len(s)
        perms == {f \in [1..n -> 1..n] : \A a, b \in 1..n : a # b => f[a] # f[b]}
    IN {t \in {[j \in 1..n |-> s[f[j]]] : f \in perms} :
           \A a, b \in 1..n : a < b => ~less(t[b], t[a])}

Sort ==
    /\ pc = "sort"
    /\ stats' \in SortResults(stats)
    /\ pc' = "top"
    /\ i' = Len(stats)
    /\ printed' = 0
    /\ topWeight' = 0
    /\ topHottestWeight' = 0
    /\ UNCHANGED <<input, fragment, scanErr, inlined, ret, k, count,
                   weight, hottestWeight, devirtualizedCount,
                   devirtualizedWeight, out>>

\* A variant with <= for <.
TopLoopCondOffByOne(idx, n) == idx >= 1 /\ n <= topCount

\* i >= 0 && printed < topCount (i is 1-based here)
TopLoopCond(idx, n) == idx >= 1 /\ n < topCount

\* A variant that never reports NOT Devirtualized.
StatusAlwaysDevirtualized(s) == "    Devirtualized"

\* spec
Status(s) ==
    IF s.Devirtualized # "" THEN "    Devirtualized" ELSE "NOT Devirtualized"

\* specExtra: empty, or the arguments of its Sprintf.
SpecExtra(s) ==
    IF s.Devirtualized # "" /\ s.Devirtualized # s.Hottest
    THEN <<s.Devirtualized, s.DevirtualizedWeight>>
    ELSE <<>>

\* typ
Typ(s) == IF ~s.Interface THEN " function" ELSE "interface"

\* The line printed for a record, as the arguments of its Printf (s itself
\* stands for the fields of s the format prints).
CallLine(s) ==
    [kind |-> "call", spec |-> Status(s), typ |-> Typ(s), s |-> s,
     ofCallsite |-> pct(s.HottestWeight, s.Weight), specExtra |-> SpecExtra(s)]

\* The lines printed beneath it.
InlinedLines(s) ==
    LET syms == Lookup(inlined, s.Pos)
    IN [j \in 1..Len(syms) |-> [kind |-> "inlined", sym |-> syms[j]]]

\* A variant that adds the hottest weight.
TopWeightAddHottest(tw, s) == tw + s.HottestWeight

\* topWeight += s.Weight
TopWeightAdd(tw, s) == tw + s.Weight

\* One iteration of the walk from the end of the sorted records.
TopStep ==
    /\ pc = "top"
    /\ TopLoopCond(i, printed)
    /\ LET s == stats[i]
       IN IF s.Direct
          THEN UNCHANGED <<printed, topWeight, topHottestWeight, out>>
          ELSE /\ out' = out \o <<CallLine(s)>> \o InlinedLines(s)
               /\ printed' = printed + 1
               /\ topWeight' = TopWeightAdd(topWeight, s)
               /\ topHottestWeight' = topHottestWeight + s.HottestWeight
    /\ i' = i - 1
    /\ UNCHANGED <<input, fragment, scanErr, stats, inlined, pc, ret, k,
                   count, weight, hottestWeight, devirtualizedCount,
                   devirtualizedWeight>>

\* The walk is over: print the two summary lines and return nil.
Summary ==
    /\ pc = "top"
    /\ ~TopLoopCond(i, printed)
    /\ out' = out \o
         << [kind |-> "top weight", n |-> topWeight,
             of |-> pct(topWeight, weight.indirectFunc + weight.indirectMethod)],
            [kind |-> "top hottest weight", n |-> topHottestWeight,
             of |-> pct(topHottestWeight,
                        hottestWeight.indirectFunc + hottestWeight.indirectMethod)] >>
    /\ pc' = "done"
    /\ ret' = None
    /\ UNCHANGED <<input, fragment, scanErr, stats, inlined, k, count,
                   weight, hottestWeight, devirtualizedCount,
                   devirtualizedWeight, i, printed, topWeight,
                   topHottestWeight>>

\* The run over a stream whose lines are among lines.
Run(lines) ==
    \/ ReadFault
    \/ Scan(lines)
    \/ ScanEnd
    \/ Aggregate
    \/ PrintBreakdown
    \/ Sort
    \/ TopStep
    \/ Summary

Init ==
    /\ input = <<>>
    /\ fragment = FALSE
    /\ scanErr = None
    /\ stats = <<>>
    /\ inlined = EmptyMap
    /\ pc = "scan"
    /\ ret = "running"
    /\ k = 0
    /\ count = ZeroSum
    /\ weight = ZeroSum
    /\ hottestWeight = ZeroSum
    /\ devirtualizedCount = ZeroSum
    /\ devirtualizedWeight = ZeroSum
    /\ i = 0
    /\ printed = 0
    /\ topWeight = 0
    /\ topHottestWeight = 0
    /\ out = <<>>

-----------------------------------------------------------------------------
(* Inputs *)

\* "/w/a", "/w/b", "/b", "a", "./a"
PosWA == <<Slash, 119, Slash, 97>>
PosWB == <<Slash, 119, Slash, 98>>
PosB == <<Slash, 98>>
PosRelA == <<97>>
PosDotA == <<Dot, Slash, 97>>

\* The line {"Caller":"x: inlining call to y"}: a JSON object that also
\* matches the annotation pattern, with the submatches {"Caller":"x and y"}.
BothLine ==
    [m |-> << <<123, 34, 67, 97, 108, 108, 101, 114, 34, 58, 34, 120>>, "y\"}" >>,
     ok |-> TRUE,
     stat |-> [ZeroStat EXCEPT !.Caller = "x: inlining call to y"],
     len |-> 35]

\* A record of package "p", "pa" or "pb" by its devirtualized callee, at
\* position "/w/a" to "/w/d" by its call kind.
KindStat(d, f, dev) ==
    CallStat(<<112>> \o (IF dev = "" THEN <<>> ELSE IF dev = "A" THEN <<97>> ELSE <<98>>),
             <<Slash, 119, Slash, 97 + (IF d THEN 2 ELSE 0) + (IF f THEN 1 ELSE 0)>>,
             "f", d, f, 4, "A", 2, dev, 1)

\* Records of every call kind, devirtualized to the hottest callee, to
\* another one or not at all; an annotation; lines that are neither, one of
\* them a byte short of the scanner's limit and one at it.
KindLines ==
    {RecordLine(KindStat(d, f, dev)) :
        d \in BOOLEAN, f \in BOOLEAN, dev \in {"", "A", "B"}}
    \cup {AnnotationLine(PosRelA, "foo"), BothLine, NoiseLine(17),
          NoiseLine(MaxScanTokenSize - 1), NoiseLine(MaxScanTokenSize)}

Next == Run(KindLines)

Spec == Init /\ [][Next]_vars

\* A record for the ranking: function calls at "/w/a" and interface calls at
\* "/w/b", of total weight 2*hw + 1.
RankStat(pkg, pos, d, hw, caller) ==
    CallStat(pkg, pos, caller, d, pos = PosWB, 2 * hw + 1, "A", hw, "", 0)

\* Indirect records that differ in the keys of the ranking: hottest weight 1
\* or 2, package "a" or "ab", position "/w/a" or "/w/b"; one that differs
\* from another only in its caller; and direct records of package "ab".
RankLines ==
    {RecordLine(RankStat(pkg, pos, FALSE, hw, "f")) :
        pkg \in {<<97>>, <<97, 98>>}, pos \in {PosWA, PosWB}, hw \in {1, 2}}
    \cup {RecordLine(RankStat(<<97>>, PosWA, FALSE, 2, "g"))}
    \cup {RecordLine(RankStat(<<97, 98>>, pos, TRUE, hw, "f")) :
            pos \in {PosWA, PosWB}, hw \in {1, 2}}

NextRank == Run(RankLines)

SpecRank == Init /\ [][NextRank]_vars

\* Annotations written with the positions "a", "./a", "/w/a" and "/b", for
\* the symbols foo and bar, and indirect function records at the positions
\* "a", "/w/a" and "/b" with hottest weight 30 or 50.
JoinLines ==
    {AnnotationLine(pos, sym) :
        pos \in {PosRelA, PosDotA, PosWA, PosB}, sym \in {"foo", "bar"}}
    \cup {RecordLine(CallStat(<<112>>, pos, "f", FALSE, FALSE, 100, "A", hw, "", 0)) :
            pos \in {PosRelA, PosWA, PosB}, hw \in {30, 50}}

NextJoin == Run(JoinLines)

SpecJoin == Init /\ [][NextJoin]_vars

-----------------------------------------------------------------------------
(* Vocabulary of the properties *)

RECURSIVE SumSeq(_)
SumSeq(s) == IF s = <<>> THEN 0 ELSE Head(s) + SumSeq(Tail(s))

\* The call kind of a record as the specification defines it.
KindOf(s) ==
    IF s.Direct THEN "direct"
    ELSE IF s.Interface THEN "indirectMethod" ELSE "indirectFunc"

Kinds == {"direct", "indirectFunc", "indirectMethod"}

\* The records aggregated so far: the first k while the loop runs.
Aggregated == SubSeq(stats, 1, k)

\* Sum of Weight, and of HottestWeight, over the records of a kind in s.
WeightOf(s, kind) ==
    SumSeq([j \in 1..Len(s) |-> IF KindOf(s[j]) = kind THEN s[j].Weight ELSE 0])

HottestOf(s, kind) ==
    SumSeq([j \in 1..Len(s) |->
               IF KindOf(s[j]) = kind THEN s[j].HottestWeight ELSE 0])

NumberOf(s, kind) == Cardinality({j \in 1..Len(s) : KindOf(s[j]) = kind})

\* The lines of the output of one kind, in order.
OutLines(kind) == SelectSeq(out, LAMBDA l : l.kind = kind)

CallLines == OutLines("call")

-----------------------------------------------------------------------------
(* C2: during aggregation every record, whatever its kind, adds its        *)
(* totalWeight to the weight sum of its kind and its hottestCalleeWeight   *)
(* to the hottest-weight sum of its kind, so each kind's sums are the sums *)
(* over the aggregated records of that kind.                               *)
C2_HottestSumPerKind ==
    pc = "aggregate" =>
        \A kind \in Kinds :
            /\ weight[kind] = WeightOf(Aggregated, kind)
            /\ hottestWeight[kind] = HottestOf(Aggregated, kind)

(* C6: for each indirect kind the devirtualized count is at most the       *)
(* count, and the direct kind's devirtualized count and weight stay zero.  *)
C6_DevirtualizedBounds ==
    /\ devirtualizedCount.indirectFunc <= count.indirectFunc
    /\ devirtualizedCount.indirectMethod <= count.indirectMethod
    /\ devirtualizedCount.direct = 0
    /\ devirtualizedWeight.direct = 0

\* A direct record naming a devirtualized callee and a devirtualized
\* indirect record have both been aggregated.
C6_Witness ==
    /\ pc = "aggregate"
    /\ \E a, b \in 1..k :
          /\ stats[a].Direct /\ stats[a].Devirtualized # ""
          /\ stats[a].DevirtualizedWeight > 0
          /\ ~stats[b].Direct /\ stats[b].Devirtualized # ""

(* C7: every decoded record falls in exactly one kind, direct if isDirect  *)
(* (also when isInterfaceDispatch is set too), else interface, else        *)
(* function; the printed count total is the number of decoded records, and *)
(* every printed total is the sum of its three kinds.                      *)
C7_OneKindEach ==
    pc \in {"sort", "top", "done"} =>
        /\ \A kind \in Kinds : count[kind] = NumberOf(stats, kind)
        /\ count.direct = Cardinality({j \in 1..Len(stats) : stats[j].Direct})
        /\ \A l \in {out[j] : j \in 1..3} :
              l.total = l.direct + l.indirectFunc + l.indirectMethod
        /\ out[1].kind = "count"
        /\ out[1].total = Cardinality({j \in 1..Len(input) : Unmarshal(input[j]).ok})
        /\ out[1].total = Len(stats)
        /\ out[2].total = SumSeq([j \in 1..Len(stats) |-> stats[j].Weight])

\* The report is out for a record with both flags set, an interface record
\* and a function record.
C7_Witness ==
    /\ pc = "done"
    /\ \E a, b, c \in 1..Len(stats) :
          /\ stats[a].Direct /\ stats[a].Interface
          /\ ~stats[b].Direct /\ stats[b].Interface
          /\ ~stats[c].Direct /\ ~stats[c].Interface

(* C5: nothing is printed before the input has been read to its end, and a *)
(* read fault at any point ends the run with the error as its result and   *)
(* nothing printed.                                                        *)
C5_State ==
    /\ out # <<>> => pc \in {"sort", "top", "done"} /\ scanErr = None
    /\ scanErr # None => pc \in {"scan", "failed"} /\ out = <<>>
    /\ scanErr # None /\ pc = "scan" => ENABLED Next
    /\ pc = "failed" => ret = scanErr /\ ret # None /\ out = <<>>
    /\ pc = "done" => ret = None

C5_TwoPhase ==
    /\ []C5_State
    /\ [][out' # <<>> => input' = input /\ pc # "scan"]_vars
    /\ [][scanErr # None => pc' = "failed" \/ (pc' = "scan" /\ scanErr' = scanErr)]_vars

\* A read fault after a record was decoded: the run has failed.
C5_Witness ==
    /\ pc = "failed"
    /\ ret = ErrIO
    /\ \E j \in 1..Len(input) : Unmarshal(input[j]).ok

(* C8: a line that is neither an annotation nor a record is dropped,       *)
(* changing neither the records nor the annotations and never failing the  *)
(* run, whatever its length; only a read fault makes the run fail.         *)
C8_MalformedLineDropped ==
    /\ [][(input' # input
            /\ FindStringSubmatch(input'[Len(input')]) = <<>>
            /\ ~Unmarshal(input'[Len(input')]).ok)
          => (stats' = stats /\ inlined' = inlined /\ scanErr' = scanErr)]_vars
    /\ [](pc = "failed" => ret = ErrIO)

(* C10: a printed record is marked devirtualized exactly when its          *)
(* devirtualizedCallee is not empty, and carries the note with that callee *)
(* and its weight exactly when the callee is not empty and is not the      *)
(* hottest callee.                                                         *)
C10_StatusAndNote ==
    \A j \in 1..Len(CallLines) :
        LET l == CallLines[j]
        IN /\ l.spec = "    Devirtualized" <=> l.s.Devirtualized # ""
           /\ l.spec = "NOT Devirtualized" <=> l.s.Devirtualized = ""
           /\ l.specExtra # <<>> <=>
                 (l.s.Devirtualized # "" /\ l.s.Devirtualized # l.s.Hottest)
           /\ l.specExtra # <<>> =>
                 l.specExtra = <<l.s.Devirtualized, l.s.DevirtualizedWeight>>

\* Printed: a record devirtualized to another callee than the hottest, and
\* one not devirtualized.
C10_Witness ==
    \E a, b \in 1..Len(CallLines) :
        /\ CallLines[a].s.Hottest = "A" /\ CallLines[a].s.Devirtualized = "B"
        /\ CallLines[a].specExtra = <<"B", 1>>
        /\ CallLines[b].s.Devirtualized = ""
        /\ CallLines[b].spec = "NOT Devirtualized"

-----------------------------------------------------------------------------
(* Properties of the ranking, under SpecRank *)

\* r is ranked above p: hotter, or as hot and of a greater package, or as
\* hot, of the same package and at a greater position.
RanksAbove(r, p) ==
    \/ r.HottestWeight > p.HottestWeight
    \/ r.HottestWeight = p.HottestWeight /\ StrLess(p.Pkg, r.Pkg)
    \/ r.HottestWeight = p.HottestWeight /\ r.Pkg = p.Pkg /\ StrLess(p.Pos, r.Pos)

Min(a, b) == IF a < b THEN a ELSE b

NonDirect == SelectSeq(stats, LAMBDA s : ~s.Direct)

Copies(s, r) == Cardinality({j \in 1..Len(s) : s[j] = r})

Printed == [j \in 1..Len(CallLines) |-> CallLines[j].s]

(* C3: of two printed records the one with the larger hottestCalleeWeight  *)
(* is printed earlier; with equal weights the one with the smaller package *)
(* is printed later; with equal packages too, the one with the smaller     *)
(* position is printed later.                                              *)
C3_ListingOrder ==
    \A a, b \in 1..Len(Printed) :
        a < b =>
            LET x == Printed[a]
                y == Printed[b]
            IN /\ x.HottestWeight >= y.HottestWeight
               /\ x.HottestWeight = y.HottestWeight => ~StrLess(x.Pkg, y.Pkg)
               /\ x.HottestWeight = y.HottestWeight /\ x.Pkg = y.Pkg
                     => ~StrLess(x.Pos, y.Pos)

\* Two records as hot as each other were printed, package "ab" before "a".
C3_Witness ==
    /\ pc = "done"
    /\ Len(Printed) = 2
    /\ Printed[1].HottestWeight = Printed[2].HottestWeight
    /\ Printed[1].Pkg = <<97, 98>>
    /\ Printed[2].Pkg = <<97>>
    /\ StrLess(Printed[1].Pos, Printed[2].Pos)

(* C4: no direct record is ever listed and none uses up a place: the       *)
(* listing holds min(K, number of non-direct records) records, and no      *)
(* non-direct record left out ranks above a listed one.                    *)
C4_ListingSkipsDirect ==
    /\ \A j \in 1..Len(Printed) : ~Printed[j].Direct
    /\ pc = "done" =>
          /\ Len(Printed) = Min(topCount, Len(NonDirect))
          /\ \A j \in 1..Len(NonDirect) :
                LET r == NonDirect[j]
                IN /\ Copies(Printed, r) <= Copies(NonDirect, r)
                   /\ Copies(Printed, r) < Copies(NonDirect, r) =>
                         \A a \in 1..Len(Printed) : ~RanksAbove(r, Printed[a])
          /\ \A a \in 1..Len(Printed) : Copies(NonDirect, Printed[a]) > 0

\* The hottest record is direct and topCount colder ones are listed.
C4_Witness ==
    /\ pc = "done"
    /\ Len(Printed) = topCount
    /\ \E d \in 1..Len(stats) :
          /\ stats[d].Direct
          /\ \A a \in 1..Len(Printed) :
                stats[d].HottestWeight > Printed[a].HottestWeight

(* C9: the two closing lines give the sums of totalWeight and of           *)
(* hottestCalleeWeight over the listed records only, each against the      *)
(* function and interface sums together; when every non-direct record is   *)
(* listed the sums are those totals.                                       *)
C9_TopSums ==
    pc = "done" =>
        LET tw == OutLines("top weight")
            th == OutLines("top hottest weight")
            allW == WeightOf(stats, "indirectFunc") + WeightOf(stats, "indirectMethod")
            allH == HottestOf(stats, "indirectFunc") + HottestOf(stats, "indirectMethod")
        IN /\ Len(tw) = 1 /\ Len(th) = 1
           /\ out[Len(out) - 1] = tw[1] /\ out[Len(out)] = th[1]
           /\ tw[1].n = SumSeq([j \in 1..Len(Printed) |-> Printed[j].Weight])
           /\ th[1].n = SumSeq([j \in 1..Len(Printed) |-> Printed[j].HottestWeight])
           /\ tw[1].of = <<tw[1].n, allW>>
           /\ th[1].of = <<th[1].n, allH>>
           /\ Len(Printed) = Len(NonDirect) => tw[1].n = allW /\ th[1].n = allH

\* A function record and an interface record are listed and a direct one
\* was skipped.
C9_Witness ==
    /\ pc = "done"
    /\ Len(Printed) = 2
    /\ Printed[1].Interface /\ ~Printed[2].Interface
    /\ \E d \in 1..Len(stats) : stats[d].Direct /\ stats[d].Weight > 0

-----------------------------------------------------------------------------
(* Properties of the join of annotations and records, under SpecJoin *)

\* The symbols printed from line j of the output on, up to the next line
\* that is not an inlined line.
RECURSIVE SymsFrom(_)
SymsFrom(j) ==
    IF j > Len(out) THEN <<>>
    ELSE IF out[j].kind # "inlined" THEN <<>>
    ELSE <<out[j].sym>> \o SymsFrom(j + 1)

\* The annotation lines of the input, in order.
Annotations == SelectSeq(input, LAMBDA l : Len(FindStringSubmatch(l)) = 2)

\* The symbols of the annotations whose position, made absolute, is pos.
SymsAt(pos) ==
    LET at == SelectSeq(Annotations, LAMBDA l : normalizePos(l.m[1]) = pos)
    IN [j \in 1..Len(at) |-> at[j].m[2]]

(* C1, as claimed: beneath every printed record are the symbols of the     *)
(* annotation lines whose normalized position equals the record's          *)
(* normalized position, in the order read; so a record and an annotation   *)
(* line carrying the same relative position are joined.                    *)
C1_JoinOnNormalizedPositions ==
    \A j \in 1..Len(out) :
        out[j].kind = "call" =>
            SymsFrom(j + 1) = SymsAt(normalizePos(out[j].s.Pos))

(* C1, amended: beneath every printed record are the symbols of the        *)
(* annotation lines whose normalized position equals the record's position *)
(* as the record gives it, in the order read.                              *)
C1_JoinOnRecordPosition ==
    \A j \in 1..Len(out) :
        out[j].kind = "call" => SymsFrom(j + 1) = SymsAt(out[j].s.Pos)

\* Two annotations written with a relative position are printed, in the
\* order read, beneath a record that gives the position in absolute form.
C1_Witness ==
    /\ pc = "done"
    /\ \E j \in 1..Len(out) :
          /\ out[j].kind = "call"
          /\ out[j].s.Pos = PosWA
          /\ SymsFrom(j + 1) = <<"foo", "bar">>
          /\ \A a \in 1..Len(Annotations) : Annotations[a].m[1] # PosWA

====
